---- MODULE Spec2Model ----
(***************************************************************************)
(* Model of the ultrasonic ranger driver (trunk/gaggia/ranger.cpp).        *)
(*                                                                         *)
(* Two threads: the caller thread, which owns the Ranger object and calls  *)
(* getRange / getCount / ready / initialise and finally the destructor,    *)
(* and the worker thread started by the constructor.                       *)
(*                                                                         *)
(* Time.  `now` is the clock read by getClock(), in microseconds.  Code    *)
(* that does not block takes no time; delayms, usPulse and GPIOPin::poll   *)
(* return exactly when they are due.  The steps of the two threads that    *)
(* fall on the same instant interleave in every order.                     *)
(*                                                                         *)
(* Distances.  The code keeps distances in doubles (metres).  The model    *)
(* keeps them on a grid of 50 micrometres (20000 units = 1 m) and rounds   *)
(* every arithmetic result to the nearest grid value, ties to even, which  *)
(* is the rounding of IEEE-754 doubles at a coarser spacing.               *)
(*                                                                         *)
(* The PID controller (gaggia/pid.h) is a second, independent object; its  *)
(* member functions are not part of the sources at hand and follow the     *)
(* description of the algorithm.  Its doubles are modelled by integers,    *)
(* on which the arithmetic of the update is exact.                         *)
(***************************************************************************)
EXTENDS Integers, FiniteSets, Sequences, TLC

\* ---------------------------------------------------------------- bounds
\* worker iterations explored (m_count is unsigned and unbounded in the code)
MaxCount == 3
\* calls of PIDControl::update explored
MaxUpdates == 3

\* --------------------------------------------------- program constants
\* ranger.cpp:127, minimumInterval = 0.2 s, in microseconds
MinimumInterval == 200000
\* ranger.cpp:130, timeout = 60 ms, in microseconds
Timeout == 60000
\* ranger.cpp:147, usPulse( true, 10 )
PulseUs == 10
\* ranger.cpp:65, delayms( 50 ), in microseconds
InitDelay == 50000
\* ranger.cpp:64, (i<10)
InitTries == 10
\* ranger.cpp:96, 0.01 m on the 50 micrometre grid
JumpLimit == 200
\* ranger.cpp:97, 0.001 m on the 50 micrometre grid
NearZero == 20

\* ------------------------------------------------- the simulated echo line
\* delay from the end of the trigger pulse to the rising edge, microseconds
EchoDelays == {450}
\* widths of the echo pulse, microseconds: 5 (0.00085 m, below 0.001 m),
\* 6 (0.00102 m, between 0.001 m and 0.01 m), 588 (0.1 m)
PulseWidths == {5, 6, 588}

\* ------------------------------------------------------- pure functions
\* a conversion without the division by two of the round trip
DistanceOneWay(us) == us * 6 + (us * 8054 + 5000) \div 10000
\* ranger.cpp:168-169, distance = elapsed * 340.27 / 2.0 with elapsed in
\* microseconds: elapsed * 170.135e-6 m = elapsed * 3.4027 grid units,
\* rounded to the nearest grid value
Distance(us) == us * 3 + (us * 4027 + 5000) \div 10000

\* rounding of a value given as twice itself: nearest, ties to even
RoundHalf(twice) ==
    IF twice % 2 = 0 THEN twice \div 2
    ELSE LET lo == (twice - 1) \div 2
         IN  IF lo % 2 = 0 THEN lo ELSE lo + 1

\* a filter with k = 1.0
FilterNone(prev, raw) == raw
\* ranger.cpp:114-115, m_range + k * (range - m_range) with k = 0.5:
\* the difference and its half are exact, the sum is rounded
Filter(prev, raw) == RoundHalf(2 * prev + (raw - prev))

\* a worker without the initialisation of the filter
FilterInitNever(first, prev, raw) == prev
\* ranger.cpp:108-109, if ( firstTime ) m_range = range
FilterInit(first, prev, raw) == IF first THEN raw ELSE prev

\* a counter that counts measurements, two in an iteration with a retry
NextCountBy2(count) == count + 2
\* ranger.cpp:116, m_count++
NextCount(count) == count + 1

\* a loop that never looks at m_run
LoopTestAlways(run) == TRUE
\* ranger.cpp:88, while (m_run)
LoopTest(run) == run

\* a test of the interval with the comparison reversed
NeedDelayReversed(interval) == interval > MinimumInterval
\* ranger.cpp:137, if ( interval < minimumInterval )
NeedDelay(interval) == interval < MinimumInterval

\* a delay passed in seconds to delayms, which takes milliseconds
DelayForUnscaled(interval) == (MinimumInterval - interval) \div 1000
\* ranger.cpp:140, the argument of delayms, 1000.0 * (minimumInterval -
\* interval) ms, in microseconds
DelayFor(interval) == MinimumInterval - interval

\* delayms (timing.h): the calling thread sleeps for the time it is given
Delayms(us) == us

\* a worker that does not wait for the mutex
MayEnterAlways(mutex) == TRUE
\* ranger.cpp:105, the lock_guard of the worker waits for the mutex
MayEnter(mutex) == mutex = "free"

\* a critical section that does not end
ReleaseNever(mutex) == mutex
\* ranger.cpp:117, the lock_guard goes out of scope
Release(mutex) == "free"

\* an outlier test without the near-zero floor
OutlierJumpOnly(first, r, old) ==
    ~first /\ (IF r >= old THEN r - old ELSE old - r) > JumpLimit
\* ranger.cpp:95-97, the outlier test
Outlier(first, r, old) ==
    (~first /\ (IF r >= old THEN r - old ELSE old - r) > JumpLimit)
    \/ (r < NearZero)

Min(a, b) == IF a <= b THEN a ELSE b
Max(a, b) == IF a >= b THEN a ELSE b

VARIABLES
    now,            \* getClock()
    \* the Ranger object
    m_range, m_count, m_run, m_timeLastRun, m_mutex,
    \* Ranger::worker, its position and locals
    wpc, outerRange, oldRange, firstTime, range, attempt,
    \* Ranger::measureRange locals and the pending blocking call
    rise, elapsed, response, wWake, edge,
    \* the caller thread
    cpc, rdCtx, init_i, cWake,
    retOp, retVal,  \* the last function that returned to the caller, its value
    \* history
    nPub,           \* number of filter results stored in m_range
    iterations,     \* number of completed worker iterations
    firstRaw,       \* first raw reading of the current iteration
    prevRaw,        \* raw reading accepted by the last completed iteration
    prevRange,      \* m_range when the current critical section began
    steady,         \* every echo so far was a pulse of 588 microseconds
    script,         \* progress of a caller that follows the bench scenario
    known,          \* the largest count the caller has been told of: by
                    \* getCount, or 1 by a true ready or initialise
    stopAt,         \* whether m_run was cleared while a poll was timing out
    initStart,      \* the time at which the running initialise was called
    stopTime,       \* the time at which the destructor cleared m_run
    callsAfterStop, \* calls of measureRange begun after m_run was cleared
    callLog         \* what the current call of measureRange has done so far

VARIABLES
    \* the PIDControl object, pid.h:21-28
    m_dState, m_iState, m_iMax, m_iMin, m_iGain, m_pGain, m_dGain,
    \* history of the PIDControl object
    pidOp,          \* the last member function called
    nUpdates,       \* number of calls of update
    pidError,       \* the error passed to the last update
    pidPosition,    \* the position passed to the last update
    pidPrevious,    \* the position passed to the update before it, or 0
    pidOutput       \* the value returned by the last update

pidVars == <<m_dState, m_iState, m_iMax, m_iMin, m_iGain, m_pGain, m_dGain,
             pidOp, nUpdates, pidError, pidPosition, pidPrevious, pidOutput>>

objVars    == <<m_range, m_count, m_run, m_timeLastRun, m_mutex>>
workerVars == <<wpc, outerRange, oldRange, firstTime, range, attempt>>
measVars   == <<rise, elapsed, response, wWake, edge>>
callerVars == <<cpc, rdCtx, init_i, cWake, retOp, retVal>>
histVars   == <<nPub, iterations, firstRaw, prevRaw, prevRange, steady, script,
                known>>
callVars   == <<stopAt, initStart>>
stopVars   == <<stopTime, callsAfterStop>>
rangerVars == <<now, objVars, workerVars, measVars, callerVars, histVars,
                callVars, stopVars, callLog>>
vars == <<rangerVars, pidVars>>

\* the limits of the integrator before setIntegratorLimits: permissive
DefaultLimit == 1000000

\* PIDControl::PIDControl, the state is zeroed and the limits are permissive
PidInit ==
    /\ m_dState = 0 /\ m_iState = 0
    /\ m_iMin = -DefaultLimit /\ m_iMax = DefaultLimit
    /\ m_iGain = 0 /\ m_pGain = 0 /\ m_dGain = 0
    /\ pidOp = "none" /\ nUpdates = 0 /\ pidError = 0 /\ pidPosition = 0
    /\ pidPrevious = 0 /\ pidOutput = 0

\* ranger.cpp:8-28, the state when the constructor returns
Init ==
    /\ now = 0
    /\ m_range = 0 /\ m_count = 0 /\ m_run = TRUE
    /\ m_timeLastRun = 0 /\ m_mutex = "free"
    /\ wpc = "w_while" /\ outerRange = 0 /\ oldRange = 0
    /\ firstTime = TRUE /\ range = 0 /\ attempt = 0
    /\ rise = 0 /\ elapsed = 0 /\ response = FALSE /\ wWake = 0 /\ edge = FALSE
    /\ cpc = "idle" /\ rdCtx = "none" /\ init_i = 0 /\ cWake = 0
    /\ retOp = "none" /\ retVal = 0
    /\ known = 0 /\ stopAt = "running" /\ initStart = 0
    /\ nPub = 0 /\ iterations = 0 /\ firstRaw = 0 /\ prevRaw = 0
    /\ prevRange = 0 /\ steady = TRUE /\ script = "start"
    /\ stopTime = 0 /\ callsAfterStop = 0 /\ callLog = <<>>
    /\ PidInit

\* ====================================================== Ranger::worker

\* ranger.cpp:88-92, the loop test, oldRange = range (the range of line 84,
\* which nothing assigns) and the first call of measureRange
WhileRun ==
    /\ wpc = "w_while" /\ LoopTest(m_run) /\ m_count < MaxCount
    /\ oldRange' = outerRange
    /\ attempt' = 1
    /\ wpc' = "mr_interval"
    /\ UNCHANGED <<now, objVars, outerRange, firstTime, range, measVars,
                   callerVars, histVars>>
    /\ UNCHANGED callVars
    /\ UNCHANGED pidVars
    /\ callsAfterStop' = IF m_run THEN callsAfterStop ELSE callsAfterStop + 1
    /\ UNCHANGED stopTime
    /\ UNCHANGED callLog

\* ranger.cpp:88 and 119, the loop test fails and the thread ends
WhileStop ==
    /\ wpc = "w_while" /\ ~LoopTest(m_run)
    /\ wpc' = "w_exit"
    /\ UNCHANGED <<now, objVars, outerRange, oldRange, firstTime, range,
                   attempt, measVars, callerVars, histVars>>
    /\ UNCHANGED callVars
    /\ UNCHANGED pidVars
    /\ UNCHANGED stopVars
    /\ UNCHANGED callLog

\* ranger.cpp:132-141, the locals and the interval since the last run
MeasureInterval ==
    /\ wpc = "mr_interval"
    /\ elapsed' = 0 /\ response' = FALSE /\ rise' = 0 /\ edge' = FALSE
    /\ LET interval == now - m_timeLastRun
       IN  IF NeedDelay(interval)
           THEN /\ wWake' = now + Delayms(DelayFor(interval))
                /\ wpc' = "mr_delay"
           ELSE /\ wWake' = now
                /\ wpc' = "mr_trigger"
    /\ UNCHANGED <<now, objVars, outerRange, oldRange, firstTime, range,
                   attempt, callerVars, histVars>>
    /\ UNCHANGED callVars
    /\ UNCHANGED pidVars
    /\ UNCHANGED stopVars
    /\ callLog' = IF NeedDelay(now - m_timeLastRun)
                  THEN <<"sleep">> ELSE <<>>

\* ranger.cpp:140, delayms returns
MeasureDelayed ==
    /\ wpc = "mr_delay" /\ now >= wWake
    /\ wpc' = "mr_trigger"
    /\ UNCHANGED <<now, objVars, outerRange, oldRange, firstTime, range,
                   attempt, measVars, callerVars, histVars>>
    /\ UNCHANGED callVars
    /\ UNCHANGED pidVars
    /\ UNCHANGED stopVars
    /\ UNCHANGED callLog

\* a trigger pulse without the record of its time
MeasureTriggerNoRecord ==
    /\ wpc = "mr_trigger"
    /\ m_timeLastRun' = m_timeLastRun
    /\ wWake' = now + PulseUs
    /\ wpc' = "mr_pulse"
    /\ UNCHANGED <<now, m_range, m_count, m_run, m_mutex, outerRange,
                   oldRange, firstTime, range, attempt, rise, elapsed,
                   response, edge, callerVars, histVars>>
    /\ UNCHANGED callVars
    /\ UNCHANGED pidVars
    /\ UNCHANGED stopVars
    /\ callLog' = callLog \o <<"pulse">>

\* ranger.cpp:144-147, remember the time and start the trigger pulse
MeasureTrigger ==
    /\ wpc = "mr_trigger"
    /\ m_timeLastRun' = now
    /\ wWake' = now + PulseUs
    /\ wpc' = "mr_pulse"
    /\ UNCHANGED <<now, m_range, m_count, m_run, m_mutex, outerRange,
                   oldRange, firstTime, range, attempt, rise, elapsed,
                   response, edge, callerVars, histVars>>
    /\ UNCHANGED callVars
    /\ UNCHANGED pidVars
    /\ UNCHANGED stopVars
    /\ callLog' = callLog \o <<"record", "pulse">>

\* ranger.cpp:147-150, the pulse ends and the poll for the rising edge
\* begins: the edge comes after one of EchoDelays, or not within the timeout
MeasurePollRise ==
    /\ wpc = "mr_pulse" /\ now >= wWake
    /\ \/ \E d \in EchoDelays :
            wWake' = now + d /\ edge' = TRUE /\ steady' = steady
       \/ wWake' = now + Timeout /\ edge' = FALSE /\ steady' = FALSE
    /\ wpc' = "mr_wait_rise"
    /\ UNCHANGED <<now, objVars, outerRange, oldRange, firstTime, range,
                   attempt, rise, elapsed, response, callerVars, nPub,
                   iterations, firstRaw, prevRaw, prevRange, script, known>>
    /\ UNCHANGED callVars
    /\ UNCHANGED pidVars
    /\ UNCHANGED stopVars
    /\ callLog' = Append(callLog, "poll_rise")

\* ranger.cpp:150-155, the first poll returns; with an edge the time is
\* recorded and the poll for the falling edge begins: the pulse has one of
\* PulseWidths, or the edge does not come within the timeout
MeasureRose ==
    /\ wpc = "mr_wait_rise" /\ now >= wWake
    /\ IF edge
       THEN /\ rise' = now
            /\ \/ \E w \in PulseWidths :
                    /\ wWake' = now + w /\ edge' = TRUE
                    /\ steady' = (steady /\ w = 588)
               \/ wWake' = now + Timeout /\ edge' = FALSE /\ steady' = FALSE
            /\ wpc' = "mr_wait_fall"
       ELSE /\ wpc' = "mr_return"
            /\ UNCHANGED <<rise, wWake, edge, steady>>
    /\ UNCHANGED <<now, objVars, outerRange, oldRange, firstTime, range,
                   attempt, elapsed, response, callerVars, nPub,
                   iterations, firstRaw, prevRaw, prevRange, script, known>>
    /\ UNCHANGED callVars
    /\ UNCHANGED pidVars
    /\ UNCHANGED stopVars
    /\ callLog' = IF edge THEN Append(callLog, "poll_fall") ELSE callLog

\* ranger.cpp:155-164, the second poll returns
MeasureFell ==
    /\ wpc = "mr_wait_fall" /\ now >= wWake
    /\ IF edge
       THEN elapsed' = now - rise /\ response' = TRUE
       ELSE UNCHANGED <<elapsed, response>>
    /\ wpc' = "mr_return"
    /\ UNCHANGED <<now, objVars, outerRange, oldRange, firstTime, range,
                   attempt, rise, wWake, edge, callerVars, histVars>>
    /\ UNCHANGED callVars
    /\ UNCHANGED pidVars
    /\ UNCHANGED stopVars
    /\ UNCHANGED callLog

\* ranger.cpp:167-175 and 92 or 101, the distance is returned and stored in
\* the range of line 92
MeasureReturn ==
    /\ wpc = "mr_return"
    /\ range' = IF response THEN Distance(elapsed) ELSE 0
    /\ IF attempt = 1
       THEN firstRaw' = range' /\ wpc' = "w_outlier"
       ELSE firstRaw' = firstRaw /\ wpc' = "w_lock"
    /\ elapsed' = 0 /\ response' = FALSE /\ rise' = 0 /\ edge' = FALSE
    /\ wWake' = 0
    /\ UNCHANGED <<now, objVars, outerRange, oldRange, firstTime, attempt,
                   callerVars, nPub, iterations, prevRaw, prevRange,
                   steady, script, known>>
    /\ UNCHANGED callVars
    /\ UNCHANGED pidVars
    /\ UNCHANGED stopVars
    /\ callLog' = <<>>

\* ranger.cpp:95-101, an outlier is measured once more
CheckOutlier ==
    /\ wpc = "w_outlier"
    /\ IF Outlier(firstTime, range, oldRange)
       THEN attempt' = 2 /\ wpc' = "mr_interval"
       ELSE attempt' = attempt /\ wpc' = "w_lock"
    /\ UNCHANGED <<now, objVars, outerRange, oldRange, firstTime, range,
                   measVars, callerVars, histVars>>
    /\ UNCHANGED callVars
    /\ UNCHANGED pidVars
    /\ callsAfterStop' = IF m_run \/ ~Outlier(firstTime, range, oldRange)
                       THEN callsAfterStop ELSE callsAfterStop + 1
    /\ UNCHANGED stopTime
    /\ UNCHANGED callLog

\* ranger.cpp:105, lock_guard takes the mutex
WorkerLock ==
    /\ wpc = "w_lock" /\ MayEnter(m_mutex)
    /\ m_mutex' = "worker"
    /\ prevRange' = m_range
    /\ wpc' = "w_first"
    /\ UNCHANGED <<now, m_range, m_count, m_run, m_timeLastRun, outerRange, oldRange, firstTime, range, attempt,
                   measVars, callerVars, nPub, iterations, firstRaw, prevRaw,
                   steady, script, known>>
    /\ UNCHANGED callVars
    /\ UNCHANGED pidVars
    /\ UNCHANGED stopVars
    /\ UNCHANGED callLog

\* ranger.cpp:108-111, initialisation of the filter
WorkerFirst ==
    /\ wpc = "w_first"
    /\ IF firstTime
       THEN firstTime' = FALSE
       ELSE firstTime' = firstTime
    /\ m_range' = FilterInit(firstTime, m_range, range)
    /\ wpc' = "w_filter"
    /\ UNCHANGED <<now, m_count, m_run, m_timeLastRun, m_mutex, outerRange,
                   oldRange, range, attempt, measVars, callerVars, histVars>>
    /\ UNCHANGED callVars
    /\ UNCHANGED pidVars
    /\ UNCHANGED stopVars
    /\ UNCHANGED callLog

\* ranger.cpp:114-115, store the filtered value
WorkerFilter ==
    /\ wpc = "w_filter"
    /\ m_range' = Filter(m_range, range)
    /\ nPub' = nPub + 1
    /\ wpc' = "w_count"
    /\ UNCHANGED <<now, m_count, m_run, m_timeLastRun, m_mutex, outerRange,
                   oldRange, firstTime, range, attempt, measVars, callerVars,
                   iterations, firstRaw, prevRaw, prevRange, steady, script,
                   known>>
    /\ UNCHANGED callVars
    /\ UNCHANGED pidVars
    /\ UNCHANGED stopVars
    /\ UNCHANGED callLog

\* ranger.cpp:116, m_count++
WorkerCount ==
    /\ wpc = "w_count"
    /\ m_count' = NextCount(m_count)
    /\ wpc' = "w_unlock"
    /\ UNCHANGED <<now, m_range, m_run, m_timeLastRun, m_mutex, outerRange,
                   oldRange, firstTime, range, attempt, measVars, callerVars,
                   histVars>>
    /\ UNCHANGED callVars
    /\ UNCHANGED pidVars
    /\ UNCHANGED stopVars
    /\ UNCHANGED callLog

\* ranger.cpp:117-118, the lock_guard releases the mutex and the range of
\* line 92 goes out of scope
WorkerUnlock ==
    /\ wpc = "w_unlock"
    /\ m_mutex' = Release(m_mutex)
    /\ iterations' = iterations + 1
    /\ prevRaw' = range
    /\ range' = 0 /\ attempt' = 0 /\ firstRaw' = 0 /\ prevRange' = 0
    /\ wpc' = "w_while"
    /\ UNCHANGED <<now, m_range, m_count, m_run, m_timeLastRun, outerRange,
                   oldRange, firstTime, measVars, callerVars, nPub, steady,
                   script, known>>
    /\ UNCHANGED callVars
    /\ UNCHANGED pidVars
    /\ UNCHANGED stopVars
    /\ UNCHANGED callLog

WorkerNext ==
    \/ WhileRun \/ WhileStop
    \/ MeasureInterval \/ MeasureDelayed \/ MeasureTrigger
    \/ MeasurePollRise \/ MeasureRose \/ MeasureFell \/ MeasureReturn
    \/ CheckOutlier
    \/ WorkerLock \/ WorkerFirst \/ WorkerFilter \/ WorkerCount
    \/ WorkerUnlock

\* ================================================== the caller thread

\* ranger.cpp:46, getRange takes the mutex
GetRangeLock ==
    /\ cpc = "idle" /\ m_mutex = "free"
    /\ m_mutex' = "caller"
    /\ cpc' = "gr_locked"
    /\ UNCHANGED <<retOp, retVal>>
    /\ script' = IF script = "counted" THEN script ELSE "off"
    /\ UNCHANGED <<now, m_range, m_count, m_run, m_timeLastRun, workerVars,
                   measVars, rdCtx, init_i, cWake, nPub,
                   iterations, firstRaw, prevRaw, prevRange, steady,
                   known>>
    /\ UNCHANGED callVars
    /\ UNCHANGED pidVars
    /\ UNCHANGED stopVars
    /\ UNCHANGED callLog

\* ranger.cpp:47-48, getRange returns m_range and releases the mutex
GetRangeReturn ==
    /\ cpc = "gr_locked"
    /\ retOp' = "getRange" /\ retVal' = m_range
    /\ m_mutex' = "free"
    /\ cpc' = "idle"
    /\ script' = IF script = "counted" THEN "ranged" ELSE "off"
    /\ UNCHANGED <<now, m_range, m_count, m_run, m_timeLastRun, workerVars,
                   measVars, rdCtx, init_i, cWake, nPub, iterations,
                   firstRaw, prevRaw, prevRange, steady, known>>
    /\ UNCHANGED callVars
    /\ UNCHANGED pidVars
    /\ UNCHANGED stopVars
    /\ UNCHANGED callLog

\* ranger.cpp:55, getCount takes the mutex
GetCountLock ==
    /\ cpc = "idle" /\ m_mutex = "free"
    /\ m_mutex' = "caller"
    /\ cpc' = "gc_locked"
    /\ UNCHANGED <<retOp, retVal>>
    /\ script' = IF script = "inited" THEN script ELSE "off"
    /\ UNCHANGED <<now, m_range, m_count, m_run, m_timeLastRun, workerVars,
                   measVars, rdCtx, init_i, cWake, nPub,
                   iterations, firstRaw, prevRaw, prevRange, steady,
                   known>>
    /\ UNCHANGED callVars
    /\ UNCHANGED pidVars
    /\ UNCHANGED stopVars
    /\ UNCHANGED callLog

\* ranger.cpp:56-57, getCount returns m_count and releases the mutex
GetCountReturn ==
    /\ cpc = "gc_locked"
    /\ retOp' = "getCount" /\ retVal' = m_count
    /\ known' = Max(known, m_count)
    /\ m_mutex' = "free"
    /\ cpc' = "idle"
    /\ script' = IF script = "inited" THEN "counted" ELSE "off"
    /\ UNCHANGED <<now, m_range, m_count, m_run, m_timeLastRun, workerVars,
                   measVars, rdCtx, init_i, cWake, nPub, iterations,
                   firstRaw, prevRaw, prevRange, steady>>
    /\ UNCHANGED callVars
    /\ UNCHANGED pidVars
    /\ UNCHANGED stopVars
    /\ UNCHANGED callLog

\* ranger.cpp:76, ready takes the mutex; it is called by the caller itself,
\* by the loop test of initialise (line 64) or by its return (line 68)
ReadyLock ==
    /\ cpc \in {"idle", "in_test", "in_final"} /\ m_mutex = "free"
    /\ cpc = "in_test" => init_i < InitTries
    /\ m_mutex' = "caller"
    /\ rdCtx' = cpc
    /\ cpc' = "rd_locked"
    /\ UNCHANGED <<retOp, retVal>>
    /\ script' = IF cpc = "idle" THEN "off" ELSE script
    /\ UNCHANGED <<now, m_range, m_count, m_run, m_timeLastRun, workerVars,
                   measVars, init_i, cWake, nPub, iterations,
                   firstRaw, prevRaw, prevRange, steady, known>>
    /\ UNCHANGED callVars
    /\ UNCHANGED pidVars
    /\ UNCHANGED stopVars
    /\ UNCHANGED callLog

\* a ready that tests (m_count >= 0)
ReadyValueAlways(count) == count >= 0
\* ranger.cpp:77, the value of ready
ReadyValue(count) == count > 0

\* a loop that sleeps whatever ready returns
LoopExitNever(isReady) == FALSE
\* ranger.cpp:64, the loop ends on !ready()
LoopExit(isReady) == isReady

\* ranger.cpp:77-78, ready returns (m_count > 0) and releases the mutex;
\* in initialise the value decides between delayms( 50 ) and leaving the
\* loop (line 64-65), or is the value initialise returns (line 68)
ReadyReturn ==
    /\ cpc = "rd_locked"
    /\ retVal' = ReadyValue(m_count)
    /\ known' = IF retVal' THEN Max(known, 1) ELSE known
    /\ m_mutex' = "free"
    /\ rdCtx' = "none"
    /\ CASE rdCtx = "idle" ->
              /\ cpc' = "idle" /\ retOp' = "ready"
              /\ UNCHANGED <<cWake, init_i, script>>
         [] rdCtx = "in_test" ->
              /\ retOp' = "ready"
              /\ IF LoopExit(retVal')
                 THEN cpc' = "in_final" /\ cWake' = cWake
                 ELSE cpc' = "in_sleep" /\ cWake' = now + InitDelay
              /\ UNCHANGED <<init_i, script>>
         [] rdCtx = "in_final" ->
              /\ cpc' = "idle" /\ retOp' = "initialise"
              /\ script' = IF script = "init" THEN "inited" ELSE "off"
              /\ init_i' = 0
              /\ cWake' = cWake
    /\ UNCHANGED <<now, m_range, m_count, m_run, m_timeLastRun, workerVars,
                   measVars, nPub, iterations, firstRaw, prevRaw, prevRange,
                   steady>>
    /\ initStart' = IF rdCtx = "in_final" THEN 0 ELSE initStart
    /\ UNCHANGED stopAt
    /\ UNCHANGED pidVars
    /\ UNCHANGED stopVars
    /\ UNCHANGED callLog

\* ranger.cpp:61-64, initialise is called: int i=0
InitialiseCall ==
    /\ cpc = "idle"
    /\ init_i' = 0
    /\ cpc' = "in_test"
    /\ UNCHANGED <<retOp, retVal>>
    /\ script' = IF script = "start" /\ now = 0 THEN "init" ELSE "off"
    /\ UNCHANGED <<now, objVars, workerVars, measVars, rdCtx, cWake, nPub, iterations, firstRaw, prevRaw, prevRange,
                   steady, known>>
    /\ initStart' = now
    /\ UNCHANGED stopAt
    /\ UNCHANGED pidVars
    /\ UNCHANGED stopVars
    /\ UNCHANGED callLog

\* ranger.cpp:64, the loop test fails on (i<10), ready is not called
InitialiseGiveUp ==
    /\ cpc = "in_test" /\ ~(init_i < InitTries)
    /\ cpc' = "in_final"
    /\ UNCHANGED <<now, objVars, workerVars, measVars, rdCtx, init_i, cWake,
                   retOp, retVal, histVars>>
    /\ UNCHANGED callVars
    /\ UNCHANGED pidVars
    /\ UNCHANGED stopVars
    /\ UNCHANGED callLog

\* ranger.cpp:64-65, delayms( 50 ) returns and i++
InitialiseWake ==
    /\ cpc = "in_sleep" /\ now >= cWake
    /\ init_i' = init_i + 1
    /\ cWake' = 0
    /\ cpc' = "in_test"
    /\ UNCHANGED <<now, objVars, workerVars, measVars, rdCtx, retOp, retVal,
                   histVars>>
    /\ UNCHANGED callVars
    /\ UNCHANGED pidVars
    /\ UNCHANGED stopVars
    /\ UNCHANGED callLog

\* a destructor that also resets the published state
DestroyResets ==
    /\ cpc = "idle"
    /\ m_run' = FALSE
    /\ cpc' = "dt_join"
    /\ script' = "off"
    /\ retOp' = "none" /\ retVal' = 0 /\ known' = 0
    /\ m_range' = 0 /\ m_count' = 0
    /\ UNCHANGED <<now, m_timeLastRun, m_mutex, workerVars,
                   measVars, rdCtx, init_i, cWake, nPub,
                   iterations, firstRaw, prevRaw, prevRange, steady>>
    /\ stopAt' = IF wpc \in {"mr_wait_rise", "mr_wait_fall"} /\ ~edge
                  THEN "timeout" ELSE "other"
    /\ UNCHANGED initStart
    /\ UNCHANGED pidVars
    /\ stopTime' = now /\ callsAfterStop' = 0
    /\ UNCHANGED callLog

\* ranger.cpp:32-38, the destructor clears m_run and joins the thread; no
\* call returns to the caller any more, the record of its results ends
Destroy ==
    /\ cpc = "idle"
    /\ m_run' = FALSE
    /\ cpc' = "dt_join"
    /\ script' = "off"
    /\ retOp' = "none" /\ retVal' = 0 /\ known' = 0
    /\ UNCHANGED <<now, m_range, m_count, m_timeLastRun, m_mutex, workerVars,
                   measVars, rdCtx, init_i, cWake, nPub,
                   iterations, firstRaw, prevRaw, prevRange, steady>>
    /\ stopAt' = IF wpc \in {"mr_wait_rise", "mr_wait_fall"} /\ ~edge
                  THEN "timeout" ELSE "other"
    /\ UNCHANGED initStart
    /\ UNCHANGED pidVars
    /\ stopTime' = now /\ callsAfterStop' = 0
    /\ UNCHANGED callLog

\* ranger.cpp:38-39, join returns once the worker has ended
Joined ==
    /\ cpc = "dt_join" /\ wpc = "w_exit"
    /\ cpc' = "done"
    /\ UNCHANGED <<now, objVars, workerVars, measVars, rdCtx, init_i, cWake,
                   retOp, retVal, histVars>>
    /\ UNCHANGED callVars
    /\ UNCHANGED pidVars
    /\ UNCHANGED stopVars
    /\ UNCHANGED callLog

CallerNext ==
    \/ GetRangeLock \/ GetRangeReturn
    \/ GetCountLock \/ GetCountReturn
    \/ ReadyLock \/ ReadyReturn
    \/ InitialiseCall \/ InitialiseGiveUp \/ InitialiseWake
    \/ Destroy \/ Joined

\* ================================================================ time

\* the worker is inside delayms, usPulse or poll
WorkerBlocked ==
    wpc \in {"mr_delay", "mr_pulse", "mr_wait_rise", "mr_wait_fall"}
    /\ now < wWake
\* the worker has ended, or the model stops it at MaxCount iterations
WorkerStopped ==
    wpc = "w_exit" \/ (wpc = "w_while" /\ LoopTest(m_run) /\ m_count >= MaxCount)
\* the caller is inside delayms
CallerBlocked == cpc = "in_sleep" /\ now < cWake
\* the caller is between calls, inside join, or has destroyed the object
CallerPassive == cpc \in {"idle", "dt_join", "done"}

\* the clock moves to the next instant at which a blocking call returns
Advance ==
    /\ WorkerBlocked \/ WorkerStopped
    /\ CallerBlocked \/ CallerPassive
    /\ WorkerBlocked \/ CallerBlocked
    /\ now' = IF WorkerBlocked /\ CallerBlocked THEN Min(wWake, cWake)
              ELSE IF WorkerBlocked THEN wWake ELSE cWake
    /\ script' = IF script \in {"inited", "counted"} THEN "off" ELSE script
    /\ UNCHANGED <<objVars, workerVars, measVars, callerVars, nPub,
                   iterations, firstRaw, prevRaw, prevRange, steady,
                   known>>
    /\ UNCHANGED callVars
    /\ UNCHANGED pidVars
    /\ UNCHANGED stopVars
    /\ UNCHANGED callLog

Next == WorkerNext \/ CallerNext \/ Advance

\* ========================================================== PIDControl

\* the inputs of the control loop
PidGains == {1, 5}
PidLimits == {-10, 0, 10}
PidErrors == {-100, 0, 100}
PidPositions == {2, 3}

\* an integrator without limits
ClampNone(x, lo, hi) == x
\* the integrator state is clamped to [iMin, iMax]
Clamp(x, lo, hi) == IF x > hi THEN hi ELSE IF x < lo THEN lo ELSE x

\* a derivative state that is never updated
NextDStateKeep(dState, position) == dState
\* dState is updated to position for the next call
NextDState(dState, position) == position

\* proportional term = pGain * error
PTerm(error) == m_pGain * error
\* derivative term = -dGain * (position - dState)
DTerm(position) == -(m_dGain * (position - m_dState))

\* setPIDGains replaces the three gains
SetPIDGains ==
    /\ \E p \in PidGains, i \in PidGains, d \in PidGains :
          /\ <<p, i, d>> # <<m_pGain, m_iGain, m_dGain>>
          /\ m_pGain' = p /\ m_iGain' = i /\ m_dGain' = d
    /\ pidOp' = "setPIDGains"
    /\ UNCHANGED <<m_dState, m_iState, m_iMax, m_iMin, nUpdates, pidError,
                   pidPosition, pidPrevious, pidOutput>>
    /\ UNCHANGED rangerVars

\* setIntegratorLimits sets the limits, which the caller keeps in order
SetIntegratorLimits ==
    /\ \E lo \in PidLimits, hi \in PidLimits :
          /\ lo <= hi /\ <<lo, hi>> # <<m_iMin, m_iMax>>
          /\ m_iMin' = lo /\ m_iMax' = hi
    /\ pidOp' = "setIntegratorLimits"
    /\ UNCHANGED <<m_dState, m_iState, m_iGain, m_pGain, m_dGain, nUpdates,
                   pidError, pidPosition, pidPrevious, pidOutput>>
    /\ UNCHANGED rangerVars

\* update: the integral term accumulates the error scaled by iGain and is
\* clamped, the output is the sum of the three terms
Update ==
    /\ nUpdates < MaxUpdates
    /\ \E error \in PidErrors, position \in PidPositions :
          /\ m_iState' = Clamp(m_iState + m_iGain * error, m_iMin, m_iMax)
          /\ pidOutput' = PTerm(error) + m_iState' + DTerm(position)
          /\ m_dState' = NextDState(m_dState, position)
          /\ pidError' = error /\ pidPosition' = position
    /\ pidPrevious' = pidPosition
    /\ nUpdates' = nUpdates + 1
    /\ pidOp' = "update"
    /\ UNCHANGED <<m_iMax, m_iMin, m_iGain, m_pGain, m_dGain>>
    /\ UNCHANGED rangerVars

PidNext == SetPIDGains \/ SetIntegratorLimits \/ Update

\* the control loop alone: the controller shares nothing with the ranger
PidSpec == Init /\ [][PidNext]_vars

Spec == Init /\ [][Next]_vars

\* The caller does nothing but destroy the object, at any moment.  The
\* destructor is called between two calls of the caller, with the mutex
\* free, so the calls made before it change nothing the worker reads.
ShutdownNext == WorkerNext \/ Advance \/ Destroy \/ Joined

\* the scheduler runs the worker thread, the clock moves on, and join
\* returns once the thread has ended
ShutdownSpec ==
    /\ Init /\ [][ShutdownNext]_vars
    /\ WF_vars(WorkerNext) /\ WF_vars(Advance) /\ WF_vars(Joined)

\* ============================================================== claims

\* the worker is inside the critical section of lines 103-117
InCritical == wpc \in {"w_first", "w_filter", "w_count", "w_unlock"}
\* the worker has stored the filtered value of the current iteration
Stored == wpc \in {"w_count", "w_unlock"}
Abs(x) == IF x >= 0 THEN x ELSE -x
\* the steps in which ready, getCount and getRange return, line 116 is executed, an
\* iteration ends and the next begins
ReadyReturns == cpc = "rd_locked" /\ cpc' # "rd_locked"
CountReturns == cpc = "gc_locked" /\ cpc' # "gc_locked"
RangeReturns == cpc = "gr_locked" /\ cpc' # "gr_locked"
CountStep    == wpc = "w_count" /\ wpc' # "w_count"
EndStep      == wpc = "w_unlock" /\ wpc' # "w_unlock"
BeginStep    == wpc = "w_while" /\ wpc' = "mr_interval"

\* C1: ready() returns false as long as the worker has not completed its
\* first iteration (m_count = 0), and once a call of ready() has returned
\* true (or the caller has otherwise been told of a measurement) every later
\* call of ready() returns true.
C1_ReadyFalseThenForeverTrue ==
    [][ReadyReturns =>
          /\ (m_count = 0 \/ iterations = 0) => (retVal' = FALSE)
          /\ (retOp = "ready" /\ retVal = TRUE) => (retVal' = TRUE)
          /\ (known >= 1) => (retVal' = TRUE)]_vars

\* ready has returned true and the caller is inside its next call of ready
C1_Witness ==
    cpc = "rd_locked" /\ rdCtx = "idle" /\ retOp = "ready" /\ retVal = TRUE

\* C2: m_count starts at 0, grows by exactly 1 in each completed worker
\* iteration, with or without a retry, is changed by nothing else and never
\* decreases: each getCount() result is at least every result before it.
C2_CountMonotone ==
    /\ m_count = 0
    /\ [][/\ m_count' # m_count => (CountStep /\ m_count' = m_count + 1)
          /\ EndStep => (iterations' = m_count)
          /\ BeginStep => (iterations = m_count)
          /\ CountReturns => (retVal' >= known)
          /\ (CountReturns /\ retOp = "getCount") => (retVal' >= retVal)]_vars

\* getCount has returned 1 and is about to return 2
C2_Witness ==
    cpc = "gc_locked" /\ retOp = "getCount" /\ retVal = 1 /\ m_count = 2

\* C3: the value published by the first completed iteration, which
\* getRange() returns while m_count = 1, is the raw reading accepted in that
\* iteration.
C3_ColdStart ==
    /\ [](/\ (iterations = 1 /\ m_mutex # "worker") => (m_range = prevRaw)
          /\ (iterations = 0 /\ Stored) => (m_range = range))
    /\ [][(RangeReturns /\ m_count = 1) => (retVal' = prevRaw)]_vars

\* getRange has returned a non-zero first reading while m_count = 1
C3_Witness ==
    /\ iterations = 1 /\ m_count = 1 /\ prevRaw > 0
    /\ retOp = "getRange" /\ retVal = prevRaw

\* C4 as stated: after every iteration but the first the published range is
\* prev + 0.5*(r - prev), strictly between prev and r when they differ and
\* prev when they are equal.
C4_StrictlyBetween ==
    (Stored /\ iterations >= 1) =>
        /\ Abs(2 * m_range - (prevRange + range)) <= 1
        /\ (range = prevRange) => (m_range = prevRange)
        /\ (range > prevRange) => (prevRange < m_range /\ m_range < range)
        /\ (range < prevRange) => (range < m_range /\ m_range < prevRange)

\* C4 as amended: the published range is prev + 0.5*(r - prev) rounded to
\* the nearest representable value; it lies between prev and r, ends
\* included, strictly between them when they are more than one
\* representable value apart, and is prev when they are equal.
C4_FilterStep ==
    (Stored /\ iterations >= 1) =>
        /\ Abs(2 * m_range - (prevRange + range)) <= 1
        /\ (range = prevRange) => (m_range = prevRange)
        /\ (range >= prevRange) => (prevRange <= m_range /\ m_range <= range)
        /\ (range <= prevRange) => (range <= m_range /\ m_range <= prevRange)
        /\ (range > prevRange + 1) => (prevRange < m_range /\ m_range < range)
        /\ (range < prevRange - 1) => (range < m_range /\ m_range < prevRange)

\* a later iteration has filtered a reading next to the published range
C4_Witness ==
    Stored /\ iterations >= 1 /\ Abs(range - prevRange) = 1

\* C5: after the destructor has cleared m_run the worker leaves its loop
\* and join returns, wherever the worker was when m_run was cleared, the
\* middle of an echo timeout included; every poll and every sleep returns.
C5_DestructionCompletes ==
    (~m_run) ~> (wpc = "w_exit" /\ cpc = "done")

\* join has returned after m_run was cleared in the middle of an echo timeout
C5_Witness ==
    cpc = "done" /\ wpc = "w_exit" /\ stopAt = "timeout"

\* the caller is inside initialise
InInitialise ==
    \/ cpc \in {"in_test", "in_sleep", "in_final"}
    \/ cpc = "rd_locked" /\ rdCtx \in {"in_test", "in_final"}
\* the steps in which initialise goes to sleep and in which it returns
SleepStep   == cpc # "in_sleep" /\ cpc' = "in_sleep"
InitReturns == cpc = "rd_locked" /\ rdCtx = "in_final" /\ cpc' = "idle"

\* C6: initialise() sleeps 50 ms at most 10 times, only while no measurement
\* exists; it returns, no later than 0.5 s after the call; it returns true
\* exactly when m_count > 0 at its last call of ready; after it has returned
\* true every getCount() returns at least 1.
C6_Initialise ==
    /\ [](/\ InInitialise => (init_i <= 10)
          /\ (cpc = "in_sleep") =>
                (init_i < 10 /\ cWake <= initStart + (init_i + 1) * 50000)
          /\ (InInitialise /\ cpc # "in_sleep") =>
                (now <= initStart + init_i * 50000)
          /\ InInitialise => (now <= initStart + 500000)
          /\ (retOp = "initialise" /\ retVal = TRUE) => (m_count >= 1))
    /\ [][/\ SleepStep => (m_count = 0 /\ cWake' = now + 50000)
          /\ InitReturns => (retOp' = "initialise" /\ retVal' = (m_count > 0))
          /\ (CountReturns /\ retOp = "initialise" /\ retVal = TRUE)
                => (retVal' >= 1)
          /\ (CountReturns /\ known >= 1) => (retVal' >= 1)]_vars

\* initialise has slept ten times and leaves its loop on (i<10)
C6_Witness ==
    cpc = "in_final" /\ init_i = 10

\* C7: with an echo pulse of 588 microseconds at every measurement, a caller
\* that calls initialise() right after the construction and then at once
\* getCount() and getRange() obtains true, 1 and the raw reading of 0.1 m.
C7_BenchScenario ==
    steady =>
        /\ (script = "inited") => (retOp = "initialise" /\ retVal = TRUE)
        /\ (script = "counted") => (retOp = "getCount" /\ retVal = 1)
        /\ (script = "ranged") =>
              (retOp = "getRange" /\ retVal = 2001 /\ known = 1)

\* the caller of the bench scenario has got its three results
C7_Witness ==
    steady /\ script = "ranged" /\ retOp = "getRange"

\* the worker is about to publish, or is publishing, the current iteration
Publishing == wpc = "w_lock" \/ InCritical

\* C8: in every worker iteration, first or later, whose first raw reading is
\* below 0.001 m, the 0.0 of an echo timeout included, exactly one retry
\* measurement is taken before anything is published for that iteration.
C8_NearZeroRetry ==
    /\ attempt \in {0, 1, 2}
    /\ (Publishing /\ firstRaw < 20) => (attempt = 2)
    /\ (wpc \in {"mr_interval", "mr_delay", "mr_trigger", "mr_pulse",
                 "mr_wait_rise", "mr_wait_fall", "mr_return", "w_outlier"})
          => (nPub = iterations /\ m_mutex # "worker")

\* a later iteration publishes after a first reading of 0.00085 m and a retry
C8_Witness ==
    Stored /\ iterations >= 1 /\ firstRaw > 0 /\ firstRaw < 20 /\ attempt = 2

\* the outlier of the specification: a jump of more than 0.01 m from the
\* raw reading accepted in the previous iteration, or a reading below 0.001 m
SpecOutlier(first, r, prev) ==
    (~first /\ Abs(r - prev) > 200) \/ (r < 20)

\* C9: every worker iteration calls measureRange at most twice; when the
\* first reading is an outlier exactly one retry is taken, and the value of
\* the retry is the one that is filtered and published, outlier or not.
C9_BoundedRetry ==
    /\ attempt \in {0, 1, 2}
    /\ (Publishing /\ SpecOutlier(iterations = 0, firstRaw, prevRaw))
          => (attempt = 2)
    /\ (Stored /\ iterations = 0) => (m_range = range)
    /\ (Stored /\ iterations >= 1)
          => (Abs(2 * m_range - (prevRange + range)) <= 1)

\* C10: m_range and m_count are written only inside the critical section of
\* the worker; whenever the worker does not hold the mutex, and so whenever
\* a reader holds it, m_count is the number of ranges published, m_count = 0
\* exactly when none has been published.
C10_PublishedTogether ==
    /\ [](/\ (m_mutex # "worker") => (nPub = m_count /\ ~InCritical)
          /\ (m_mutex = "caller") => (nPub = m_count /\ (m_count = 0 <=> nPub = 0))
          /\ (cpc \in {"gr_locked", "gc_locked", "rd_locked"})
                => (m_mutex = "caller" /\ ~InCritical)
          /\ InCritical => (m_mutex = "worker"))
    /\ [][(m_range' # m_range \/ m_count' # m_count)
             => (m_mutex = "worker" /\ m_mutex' = "worker")]_vars

\* a reader holds the mutex while the worker waits for it with a new reading
C10_Witness ==
    m_mutex = "caller" /\ wpc = "w_lock" /\ m_count >= 1 /\ range # m_range

\* the step in which update is executed
UpdateStep == nUpdates' = nUpdates + 1

\* C11: after every update the integrator state lies within the limits last
\* set (given in order), whatever the errors and positions were; with limits
\* -10 and 10, iGain 5 and error 100 an integrator that was within the limits
\* ends at 10; the proportional and derivative parts of the output are the
\* same whether or not the integrator was clamped.
C11_AntiWindup ==
    /\ [](/\ (pidOp = "update" /\ m_iMin <= m_iMax)
                => (m_iMin <= m_iState /\ m_iState <= m_iMax)
          /\ (pidOp = "update")
                => (pidOutput - m_iState =
                      m_pGain * pidError - m_dGain * (pidPosition - pidPrevious)))
    /\ [][(/\ UpdateStep /\ m_iMin = -10 /\ m_iMax = 10 /\ m_iGain = 5
            /\ pidError' = 100 /\ m_iState >= m_iMin)
              => (m_iState' = 10)]_vars

\* repeated updates with error 100 have saturated the integrator at 10
C11_Witness ==
    /\ pidOp = "update" /\ nUpdates >= 2 /\ pidError = 100
    /\ m_iMin = -10 /\ m_iMax = 10 /\ m_iGain = 5 /\ m_iState = 10
    /\ m_pGain = 5 /\ pidOutput # m_iState

\* C12: the derivative part of each output is -dGain * (position - dState)
\* with dState the position of the previous update, 0 before the first;
\* update leaves dState at the position it was given; with dGain 1 and the
\* position going from 2 to 3 the derivative part of the second output is -1.
C12_DerivativeOnMeasurement ==
    /\ [](m_dState = pidPosition /\ (nUpdates = 0 => m_dState = 0))
    /\ [][UpdateStep =>
            /\ m_dState' = pidPosition'
            /\ pidPrevious' = m_dState
            /\ pidOutput' - m_pGain * pidError' - m_iState'
                  = -(m_dGain * (pidPosition' - m_dState))
            /\ (m_dGain = 1 /\ m_dState = 2 /\ pidPosition' = 3
                  /\ pidError' = pidError /\ nUpdates >= 1)
                 => (pidOutput' - m_pGain * pidError' - m_iState' = -1)]_vars

\* two updates with the same error, dGain 1 and positions 2 and then 3
C12_Witness ==
    /\ pidOp = "update" /\ nUpdates = 2 /\ m_dGain = 1
    /\ pidPrevious = 2 /\ pidPosition = 3 /\ m_dState = 3
    /\ pidOutput - m_pGain * pidError - m_iState = -1

\* C13: in every iteration after the first a retry is taken if and only if
\* the first raw reading differs by more than 0.01 m from the raw reading
\* accepted in the previous iteration or is below 0.001 m; a reading within
\* 0.01 m of the previous one and at least 0.001 m is published without a
\* retry.
C13_JumpCriterion ==
    (Publishing /\ iterations >= 1) =>
        ((attempt = 2) <=> SpecOutlier(FALSE, firstRaw, prevRaw))

\* the step in which measureRange records the time and emits the pulse
TriggerStep == wpc = "mr_trigger" /\ wpc' = "mr_pulse"

\* C14: every trigger pulse, that of a retry included, begins at least
\* 0.2 s after the one before it, and the first at least 0.2 s after the
\* time recorded by the constructor.
C14_MinimumInterval ==
    /\ [][TriggerStep =>
            (now - m_timeLastRun >= 200000 /\ m_timeLastRun' = now)]_vars
    /\ [][(m_timeLastRun' # m_timeLastRun) => TriggerStep]_vars

\* the pulse of a retry, 0.2 s after the pulse of a measurement that took
\* less than that
C14_Witness ==
    /\ wpc = "mr_pulse" /\ attempt = 2 /\ iterations >= 1
    /\ m_timeLastRun = now /\ now >= 600000

\* the steps in which a call of measureRange begins and in which it returns
CallStep   == wpc \in {"w_while", "w_outlier"} /\ wpc' = "mr_interval"
ReturnStep == wpc = "mr_return" /\ wpc' # "mr_return"
\* the worker is inside measureRange
InMeasure ==
    wpc \in {"mr_interval", "mr_delay", "mr_trigger", "mr_pulse",
             "mr_wait_rise", "mr_wait_fall", "mr_return"}

\* C15 as stated: once m_run is cleared the worker begins no call of
\* measureRange, and join returns within one minimum interval plus two echo
\* timeouts.
C15_NoNewMeasurement ==
    /\ ~m_run => (callsAfterStop = 0)
    /\ (~m_run /\ cpc = "done") => (now - stopTime <= 200000 + 2 * 60000)

\* C15 as amended: once m_run is cleared the worker finishes the iteration
\* in progress, which may still begin its one retry measurement, and begins
\* no new iteration; join returns within two minimum intervals, two echo
\* timeouts and a trigger pulse.
C15_ShutdownLatency ==
    /\ [](~m_run =>
            /\ callsAfterStop <= 1
            /\ now - stopTime <= 2 * 200000 + 2 * 60000 + 10)
    /\ [][~m_run => (~BeginStep /\ (CallStep => wpc = "w_outlier"))]_vars

\* join has returned after a retry that began when m_run was already
\* cleared, later than one minimum interval and two echo timeouts
C15_Witness ==
    /\ cpc = "done" /\ wpc = "w_exit" /\ callsAfterStop = 1
    /\ now - stopTime > 200000 + 2 * 60000

\* C16: measureRange returns 0.0 when either poll times out and
\* elapsed * 340.27 / 2, elapsed being fall time minus rise time, when both
\* polls succeed; after a timeout of the first poll there is no second poll;
\* the worker takes a first 0.0 as an outlier and measures again, and
\* publishes what the retry returns, a 0.0 included.
C16_MeasurementTimeout ==
    [][/\ ReturnStep =>
            IF edge
            THEN /\ response /\ elapsed \in PulseWidths
                 /\ Abs(10000 * range' - 34027 * elapsed) <= 5000
                 /\ Len(callLog) >= 2 /\ callLog[Len(callLog)] = "poll_fall"
            ELSE range' = 0
       /\ (wpc = "mr_wait_rise" /\ wpc' # wpc /\ ~edge)
            => (wpc' = "mr_return" /\ callLog' = callLog /\ ~response')
       /\ (wpc = "mr_wait_fall" /\ wpc' # wpc)
            => (response' = edge /\ (edge => elapsed' = now - rise))
       /\ (wpc = "w_outlier" /\ wpc' # wpc /\ range = 0)
            => (wpc' = "mr_interval" /\ attempt' = 2)
       /\ (ReturnStep /\ attempt = 2) => (wpc' = "w_lock")]_vars

\* both measurements of an iteration have timed out and 0.0 is published
C16_Witness ==
    /\ Stored /\ attempt = 2 /\ firstRaw = 0 /\ range = 0 /\ iterations >= 1

\* C17: the worker does not hold the mutex inside measureRange, the caller
\* does not hold it while it sleeps inside initialise or waits in join; the
\* mutex is free whenever time passes, so that no reader waits for a sleep
\* or a poll of the worker and the worker never waits for initialise.
C17_NoLockAcrossWait ==
    /\ [](/\ InMeasure => (m_mutex # "worker")
          /\ (cpc \in {"in_sleep", "in_test", "in_final", "dt_join"})
                => (m_mutex # "caller")
          /\ (m_mutex = "worker") => InCritical)
    /\ [][(now' # now) => (m_mutex = "free" /\ m_mutex' = "free")]_vars

\* a reader holds the mutex while the worker sleeps or polls
C17_Witness ==
    /\ wpc \in {"mr_delay", "mr_wait_rise", "mr_wait_fall"} /\ now < wWake
    /\ m_mutex = "caller" /\ cpc \in {"gr_locked", "gc_locked", "rd_locked"}

\* C18: m_range, m_count and firstTime are changed by steps of the worker
\* only; the steps of getRange, getCount, ready and initialise change none
\* of them, and the destructor changes m_run and nothing else of the object.
C18_SoleWriter ==
    [][/\ (m_range' # m_range \/ m_count' # m_count \/ firstTime' # firstTime)
            => (InCritical /\ wpc' # wpc /\ cpc' = cpc)
       /\ (cpc' # cpc)
            => (/\ m_range' = m_range /\ m_count' = m_count
                /\ firstTime' = firstTime /\ m_timeLastRun' = m_timeLastRun
                /\ wpc' = wpc)
       /\ (m_run' # m_run)
            => (/\ cpc = "idle" /\ cpc' = "dt_join" /\ ~m_run'
                /\ m_mutex' = m_mutex)]_vars

\* the destructor has run after values were published, the worker has ended
C18_Witness ==
    /\ cpc = "dt_join" /\ ~m_run /\ m_count >= 2 /\ m_range > 0
    /\ wpc = "w_exit" /\ iterations = m_count

\* what a call of measureRange does, in order
CallOrder == <<"sleep", "record", "pulse", "poll_rise", "poll_fall">>
\* the sequence s without its first element if that is "sleep"
Unslept(s) == IF s # <<>> /\ s[1] = "sleep" THEN Tail(s) ELSE s

\* C19: every call of measureRange sleeps if needed, records the time,
\* emits one trigger pulse, polls for the rising edge and then for the
\* falling edge, in this order: no poll before the pulse of the call and one
\* pulse only until the call returns.
C19_MeasurementOrder ==
    /\ [](/\ Len(Unslept(callLog)) <= 4
          /\ Unslept(callLog) = SubSeq(Tail(CallOrder), 1, Len(Unslept(callLog)))
          /\ (callLog # <<>>) => InMeasure
          /\ (wpc \in {"mr_wait_rise", "mr_wait_fall"})
                => (Len(Unslept(callLog)) >= 3 /\ now >= m_timeLastRun + 10))
    /\ [][/\ ReturnStep => (Len(Unslept(callLog)) \in {3, 4} /\ callLog' = <<>>)
          /\ (callLog # <<>> /\ callLog[1] = "sleep" /\ TriggerStep)
                => (now >= wWake)
          /\ TriggerStep => (m_timeLastRun' = now)]_vars

\* a call that has slept, recorded the time, pulsed and polled twice
C19_Witness ==
    wpc = "mr_return" /\ callLog = CallOrder /\ attempt = 2
====
